---- MODULE Spec2Model ----
(***************************************************************************)
(* Verification model of the travel-assistant agent of Open-LLM-VTuber:    *)
(*   - TravelAgent (agent/agents/travel_agent.py): the function-calling    *)
(*     turn, its thread-pool tool dispatch, its memory and interruption;   *)
(*   - MemoryManager, ToolCaller and the capability handlers               *)
(*     (agent/agents/utils, agent/agents/handlers);                        *)
(*   - UserProfileManager (agent/agents/tools/user_profile.py): the        *)
(*     profile store;                                                      *)
(*   - the intent detectors and HandlerFactory.get_handler                 *)
(*     (agent/agents/intent_detectors, handlers/base_handler.py);          *)
(*   - ToolCaller's bookkeeping under concurrent recording.                *)
(* The variable sys selects the object graph a behaviour exercises; the    *)
(* variables of the other graphs keep their constructed value.             *)
(***************************************************************************)
EXTENDS Naturals, Integers, Sequences, FiniteSets, TLC

VARIABLES
    sys,                 \* the object graph a behaviour exercises: "travel" (a TravelAgent),
                         \* "dispatch" (one call of _execute_tools_concurrently),
                         \* "handlers" (capability handlers over MemoryManager + ToolCaller)
                         \* "profiles" (a UserProfileManager) or "detectors" (the intent
                         \* detectors and the handler selection)
    \* ---- TravelAgent ----
    _memory,             \* TravelAgent._memory
    interrupt_method,    \* TravelAgent.interrupt_method
    _interrupt_handled,  \* TravelAgent._interrupt_handled
    api_key,             \* DEEPSEEK_API_KEY is configured
    pc,                  \* position of chat_with_memory
    turn,                \* number of the turn in progress (or of the last one)
    messages,            \* local `messages` of _deepseek_function_call
    retry,               \* loop variable of the final-answer retry loop
    response,            \* `response` of chat_with_memory
    tool_calls,          \* argument of _execute_tools_concurrently
    futures,             \* its futures, in submission order
    results,             \* its local `results`
    \* ---- history of the TravelAgent behaviour (not program state) ----
    outcome,             \* how the last turn ended: "none" (in progress, or none yet),
                         \* "completed", "raised" or "cancelled"
    turn_failed,         \* whether a step of this turn has failed
    cut_in_flight,       \* whether this turn was interrupted, with heard text, while its
                         \* stream was in flight
    n_requested,         \* number of tool calls the LLM requested in this turn
    n_interrupts,        \* handle_interrupt calls so far
    n_loads,             \* set_memory_from_history calls so far
    last_body,           \* the tool whose body was invoked last ("None": none yet)
    \* ---- MemoryManager / ToolCaller / handlers ----
    memory,              \* MemoryManager.memory
    tool_call_count,     \* ToolCaller.tool_call_count
    last_tool_name,      \* ToolCaller.last_tool_name
    last_tool_args,      \* ToolCaller.last_tool_args
    last_tool_call_time, \* ToolCaller.last_tool_call_time
    h_pc,                \* position of the handler in progress
    h_call,              \* the tool call in progress, or the last one made
    h_result,            \* what the last call_tool returned
    clock,               \* wall clock read by datetime.now()
    n_ops,               \* history: number of operations started so far
    n_call_tool,         \* history: number of ToolCaller.call_tool invocations so far
    h_turn,              \* history: the handler entered last, the params it extracted,
                         \* how handle() was left, the tools it called
    det,                 \* history: the call of a detector or of the handler selection
                         \* made last, with what it returned
    recorders,           \* the threads recording a tool call on one ToolCaller: where each
                         \* stands, the call it records, the count it has read
    \* ---- UserProfileManager ----
    user_profiles,       \* UserProfileManager.user_profiles
    p_op                 \* history: the store operation called last

config_vars == <<interrupt_method, api_key>>
call_vars == <<messages, retry>>
pool_vars == <<tool_calls, futures, results>>
turn_history == <<outcome, turn_failed, cut_in_flight, n_requested>>
agent_vars == <<_memory, _interrupt_handled, pc, turn, response, n_interrupts, n_loads>>

travel_vars == <<config_vars, call_vars, pool_vars, turn_history, agent_vars>>

handler_vars == <<memory, tool_call_count, last_tool_name, last_tool_args,
                  last_tool_call_time, h_pc, h_call, h_result, clock, n_ops,
                  n_call_tool, h_turn, det, recorders, user_profiles, p_op>>

profile_vars == <<user_profiles, p_op>>

vars == <<sys, travel_vars, handler_vars, last_body>>

(***************************************************************************)
(* Bounds of the model.                                                    *)
(***************************************************************************)
MaxTurns == 2        \* chat turns of one TravelAgent
MaxCalls == 4        \* tool calls handed to one _execute_tools_concurrently call
MaxTurnCalls == 2    \* tool calls the LLM requests in one modelled chat turn
MaxInterrupts == 2   \* handle_interrupt calls on one TravelAgent
MaxLoads == 1        \* set_memory_from_history calls on one TravelAgent
MaxOps == 3          \* operations started on one MemoryManager / ToolCaller pair
MaxStoreOps == 3     \* operations called on one UserProfileManager
MaxClock == 3        \* last reading of the wall clock
MaxRecorders == 2    \* threads recording a call at the same time
MaxDetOps == 3       \* calls of detectors and of the handler selection

(***************************************************************************)
(* Program constants.                                                      *)
(***************************************************************************)
PoolCap == 3         \* min(len(tool_calls), 3)
max_retries == 2     \* retries of the final-answer request

Min(a, b) == IF a < b THEN a ELSE b
Last(s) == s[Len(s)]

(***************************************************************************)
(* Messages.  A content is a record [k, t, h]: k the kind of text, t the   *)
(* turn it belongs to (0: none), h the text itself.                        *)
(***************************************************************************)
Msg(role, content, id) == [role |-> role, content |-> content, id |-> id]

SystemPrompt == [k |-> "system_prompt", t |-> 0, h |-> ""]
UserText(t) == [k |-> "user_input", t |-> t, h |-> ""]
Answer(t, r) == [k |-> "answer", t |-> t, h |-> r]
\* heard_response + "..."
Truncated(t, heard) == [k |-> "cut", t |-> t, h |-> heard]
InterruptedMarker == [k |-> "interrupted_by_user", t |-> 0, h |-> ""]
ToolText(t, c) == [k |-> "tool_output", t |-> t, h |-> c]
HistoryText(who) == [k |-> "history", t |-> 0, h |-> who]

\* TravelAgent._add_message: one message appended
_add_message(mem, content, role) == Append(mem, Msg(role, content, ""))

(***************************************************************************)
(* The tool calls an LLM response may carry, and the registered tools.     *)
(***************************************************************************)
Registered == {"get_weather", "get_infrastructure_info", "get_traffic_info", "get_ip_location"}

tcA == [id |-> "call_a", name |-> "get_weather", arguments |-> "json"]
tcB == [id |-> "call_b", name |-> "get_traffic_info", arguments |-> "json"]
tcC == [id |-> "call_c", name |-> "does_not_exist", arguments |-> "json"]
\* a call whose arguments string is not valid JSON
tcD == [id |-> "call_d", name |-> "get_weather", arguments |-> "not_json"]
ToolCallSet == {tcA, tcB, tcC, tcD}
\* the tool calls the LLM requests within a modelled chat turn
TurnToolCallSet == {tcA, tcC}

ToolOutputs == {"out1"}

SeqsUpTo(S, n) == UNION {[1..k -> S] : k \in 1..n}
(***************************************************************************)
(* TravelAgent._deepseek_function_call: the request context.               *)
(***************************************************************************)
\* messages = self._memory.copy(); system prompt inserted when missing; user appended
BuildMessages(mem, t) ==
    LET withSystem == IF mem = <<>> \/ mem[1].role # "system"
                      THEN <<Msg("system", SystemPrompt, "")>> \o mem
                      ELSE mem
    IN Append(withSystem, Msg("user", UserText(t), ""))

\* the assistant message of the first response, carrying the tool-call requests
AssistantToolCallMessage(t) == Msg("assistant", [k |-> "tool_calls", t |-> t, h |-> ""], "")

(***************************************************************************)
(* ToolManager.execute_tool and execute_single_tool.  `body` is what the   *)
(* tool's execute() does this time: one of ToolOutputs, or "raise".        *)
(***************************************************************************)
Bodies == ToolOutputs \cup {"raise"}

Result(success, content, tool_name) ==
    [success |-> success, content |-> content, tool_name |-> tool_name]
NoResult == Result(FALSE, "", "")

execute_tool(name, body) ==
    IF name \notin Registered THEN "json_error_unknown_tool"
    ELSE IF body = "raise" THEN "json_error_tool_failed"
    ELSE body

\* the outcome stored in the future: an exception (json.loads) or a result
execute_single_tool(tool_call, body) ==
    IF tool_call.arguments # "json"
    THEN [raised |-> TRUE, res |-> NoResult]
    ELSE [raised |-> FALSE,
          res |-> Result(TRUE, execute_tool(tool_call.name, body), tool_call.name)]

\* whether the execution invokes the body of a registered tool
InvokesBody(tool_call) == tool_call.arguments = "json" /\ tool_call.name \in Registered

Future(st, raised, res) == [st |-> st, raised |-> raised, res |-> res]

\* executor.submit for every tool call: the futures, in submission order
SubmitAll(tcs) == [i \in 1..Len(tcs) |-> Future("queued", FALSE, NoResult)]

\* a pool with one worker for every call
max_workers_per_call(tcs) == Len(tcs)

max_workers(tcs) == Min(Len(tcs), PoolCap)

Running(fs) == {i \in 1..Len(fs) : fs[i].st = "running"}
Queued(fs) == {i \in 1..Len(fs) : fs[i].st = "queued"}

\* `for future, original_tool_call in future_to_tool.items(): if original_tool_call == tool_call`
\* the first future, in submission order, whose tool call equals the j-th request
MatchingFuture(tcs, j) ==
    CHOOSE f \in 1..Len(tcs) :
        /\ tcs[f] = tcs[j]
        /\ \A g \in 1..(f - 1) : tcs[g] # tcs[j]

TimeoutResult(tool_call) == Result(FALSE, "timeout", tool_call.name)
ExceptionResult(tool_call) == Result(FALSE, "exception", tool_call.name)

\* future.result(timeout=30) of a finished future, as the collection loop records it
Collected(fut, tool_call) ==
    IF fut.raised THEN ExceptionResult(tool_call) ELSE fut.res

\* `for tool_call, result in zip(tool_calls, tool_results): messages.append({...})`
ToolMessages(tcs, rs, t) ==
    [i \in 1..Min(Len(tcs), Len(rs)) |->
        Msg("tool", ToolText(t, rs[i].content), tcs[i].id)]

(***************************************************************************)
(* _execute_tools_concurrently as its caller sees it: the lists of results *)
(* a call can return.  Every submitted call runs once (its body being what *)
(* the tool does that time); the j-th result is read from the first future *)
(* whose call equals the j-th request, or is a timeout when that future is *)
(* not finished in time, which cannot happen once that future has been     *)
(* read with success.                                                      *)
(***************************************************************************)
_execute_tools_concurrently(tcs) ==
    LET N == Len(tcs)
        F(j) == MatchingFuture(tcs, j)
        TimeoutSets == {T \in SUBSET (1..N) :
                          \A j \in T : \A i \in 1..(j - 1) : F(i) = F(j) => i \in T}
    IN {[j \in 1..N |->
            IF j \in T THEN TimeoutResult(tcs[j])
            ELSE LET out == execute_single_tool(tcs[F(j)], b[F(j)])
                 IN Collected([st |-> "done", raised |-> out.raised, res |-> out.res], tcs[j])]
        : b \in [1..N -> Bodies], T \in TimeoutSets}

(***************************************************************************)
(* The responses _deepseek_function_call returns.                          *)
(***************************************************************************)
CrossResponses == {"x_no_key", "x_status", "x_exception", "x_final_status", "x_content"}
\* response.startswith("❌"); None has no startswith and raises
FunctionCallFailed(resp) == resp \in CrossResponses \/ resp = "None"

(***************************************************************************)
(* UserProfileManager (tools/user_profile.py): the profile store.          *)
(* user_profiles maps every user id to its profile; a user id that is not  *)
(* a key of the dict maps to NoProfile.                                     *)
(***************************************************************************)
Users == {"u1", "u2"}

required_fields ==
    {"travel_dates", "destination", "dietary_restrictions", "preferences", "budget",
     "travel_style"}

\* a date string: 0 is a string that is not a YYYY-MM-DD date, 1 and 2 are two days

\* info['travel_dates']: a dict that holds a first and a last day, either under the
\* keys start_date and end_date or under the keys start and end
DateKeys == {"start_date_end_date", "start_end"}
DateRange(keys, first, last) == [keys |-> keys, first |-> first, last |-> last]
DatePairs == {<<0, 1>>, <<1, 1>>, <<1, 2>>, <<2, 1>>}
TravelDates == {DateRange(k, p[1], p[2]) : k \in DateKeys, p \in DatePairs}
NoDates == DateRange("none", 0, 0)

\* an info dict: the keys it holds, and what it holds under travel_dates
Info(fields, travel_dates) == [fields |-> fields, travel_dates |-> travel_dates]
InfoFields ==
    {required_fields, required_fields \cup {"name"}, {},
     required_fields \ {"budget"}, required_fields \ {"travel_dates"}}
Infos ==
    {Info(fs, IF "travel_dates" \in fs THEN d ELSE NoDates) : fs \in InfoFields, d \in TravelDates}

Profile(exists, basic_info, travel_history, feedback, created_at, updated_at) ==
    [exists |-> exists, basic_info |-> basic_info, travel_history |-> travel_history,
     feedback |-> feedback, created_at |-> created_at, updated_at |-> updated_at]
BasicInfo(fields, travel_dates, preferences) ==
    [fields |-> fields, travel_dates |-> travel_dates, preferences |-> preferences]
NoBasicInfo == BasicInfo({}, NoDates, {})
NoProfile == Profile(FALSE, NoBasicInfo, <<>>, <<>>, 0, 0)

\* the {"status": ..., "message": ...} envelope; missing: the fields the message names
Envelope(status, message, missing) ==
    [status |-> status, message |-> message, missing |-> missing]
Success(message) == Envelope("success", message, {})
Error(message) == Envelope("error", message, {})

\* a variant that lets a missing budget pass
missing_fields_but_budget(info) == (required_fields \ {"budget"}) \ info.fields

\* missing_fields = [field for field in required_fields if field not in info]
missing_fields(info) == required_fields \ info.fields

\* info['travel_dates']['start_date'] and ['end_date'] (KeyError when the key is not
\* there), strptime of both (ValueError), then `if end_date < start_date`
validate_dates(travel_dates) ==
    IF travel_dates.keys # "start_date_end_date" THEN "format"
    ELSE IF travel_dates.first = 0 \/ travel_dates.last = 0 THEN "format"
    ELSE IF travel_dates.last < travel_dates.first THEN "range"
    ELSE "ok"

\* the preferences dict of an info: its categories
InfoPreferences == {"activity"}
NewPreferences == {"food"}

\* collect_user_info(user_id, info); now1 and now3 are the readings of
\* datetime.now() for created_at and for the final updated_at
collect_user_info(profiles, user_id, info, now1, now3) ==
    IF missing_fields(info) # {}
    THEN [result |-> Envelope("error", "missing_fields", missing_fields(info)),
          profiles |-> profiles]
    ELSE IF validate_dates(info.travel_dates) = "range"
    THEN [result |-> Error("end_before_start"), profiles |-> profiles]
    ELSE IF validate_dates(info.travel_dates) = "format"
    THEN [result |-> Error("date_format"), profiles |-> profiles]
    ELSE LET old == IF profiles[user_id].exists THEN profiles[user_id]
                    ELSE Profile(TRUE, NoBasicInfo, <<>>, <<>>, now1, now1)
             new == [old EXCEPT
                       !.basic_info = BasicInfo(old.basic_info.fields \cup info.fields,
                                                info.travel_dates,
                                                InfoPreferences),
                       !.updated_at = now3]
         IN [result |-> Success("info_updated"),
             profiles |-> [profiles EXCEPT ![user_id] = new]]

\* a record of a list: what was recorded, and its timestamp
Record(what, at) == [what |-> what, at |-> at]

\* a variant that creates the profile of an unknown user
add_travel_history_creating(profiles, user_id, now1, now2) ==
    LET old == IF profiles[user_id].exists THEN profiles[user_id]
               ELSE Profile(TRUE, NoBasicInfo, <<>>, <<>>, now1, now1)
    IN [result |-> Success("history_added"),
        profiles |-> [profiles EXCEPT ![user_id] =
            [old EXCEPT !.travel_history = Append(@, Record("trip", now1)),
                        !.updated_at = now2]]]

\* add_travel_history(user_id, travel_info); now1: recorded_at, now2: updated_at
add_travel_history(profiles, user_id, now1, now2) ==
    IF ~profiles[user_id].exists
    THEN [result |-> Error("no_such_user"), profiles |-> profiles]
    ELSE [result |-> Success("history_added"),
          profiles |-> [profiles EXCEPT ![user_id] =
              [@ EXCEPT !.travel_history = Append(@, Record("trip", now1)),
                        !.updated_at = now2]]]

\* collect_feedback(user_id, feedback); now1: submitted_at, now2: updated_at
collect_feedback(profiles, user_id, now1, now2) ==
    IF ~profiles[user_id].exists
    THEN [result |-> Error("no_such_user"), profiles |-> profiles]
    ELSE [result |-> Success("feedback_collected"),
          profiles |-> [profiles EXCEPT ![user_id] =
              [@ EXCEPT !.feedback = Append(@, Record("feedback", now1)),
                        !.updated_at = now2]]]

\* analyze_preferences(user_id): reads the profile
analyze_preferences(profiles, user_id) ==
    IF ~profiles[user_id].exists
    THEN [result |-> Error("no_such_user"), profiles |-> profiles]
    ELSE [result |-> Success("analysis_done"), profiles |-> profiles]

\* update_user_preferences(user_id, new_preferences)
update_user_preferences(profiles, user_id, now1) ==
    IF ~profiles[user_id].exists
    THEN [result |-> Error("no_such_user"), profiles |-> profiles]
    ELSE [result |-> Success("preferences_updated"),
          profiles |-> [profiles EXCEPT ![user_id] =
              [@ EXCEPT !.basic_info.preferences = @ \cup NewPreferences,
                        !.updated_at = now1]]]

\* the store call made last: operation, arguments, returned envelope, and the first
\* and last reading of datetime.now() it made
StoreOp(op, user_id, info, result, first, last) ==
    [op |-> op, user_id |-> user_id, info |-> info, result |-> result,
     first |-> first, last |-> last]
NoInfo == Info({}, NoDates)
NoStoreOp == StoreOp("None", "", NoInfo, Envelope("", "", {}), 0, 0)

\* self.user_profiles = {}
ProfilesEmpty ==
    /\ user_profiles = [u \in Users |-> NoProfile]
    /\ p_op = NoStoreOp

(***************************************************************************)
(* Construction.                                                           *)
(***************************************************************************)
\* an argument map is a set of <<key, value>> pairs; None is the empty map
NoArgs == {}
ToolCall(name, args, recorded, chain) ==
    [name |-> name, args |-> args, recorded |-> recorded, chain |-> chain]
NoCall == ToolCall("None", NoArgs, NoArgs, FALSE)

\* a result dict of ToolCaller.call_tool: {"error": ...} or the tool's own dict
CallResult(error, name, value) == [error |-> error, name |-> name, value |-> value]
NoCallResult == CallResult("", "", "")

\* ToolCaller.__init__; no handler in progress
\* one handle() of a handler, the id-th operation: ret is "none" while it runs
Turn(id, handler, params, ret, called) ==
    [id |-> id, handler |-> handler, params |-> params, ret |-> ret, called |-> called]
NoTurn == Turn(0, "None", NoArgs, "none", <<>>)

\* a call of extract_params (detector, text) or of get_handler (intents, image_data)
\* with what it returned: the params, or the handler selected and the error raised
DetCall(op, detector, text, intents, image_data, params, selected, raised) ==
    [op |-> op, detector |-> detector, text |-> text, intents |-> intents,
     image_data |-> image_data, params |-> params, selected |-> selected,
     raised |-> raised]
NoIntents == [cue |-> FALSE, matched |-> {}, location |-> FALSE]
NoDetCall ==
    DetCall("None", "None", [place |-> "None", dates |-> "None"], NoIntents, FALSE, NoArgs,
            "None", "None")

\* the threads that record on one ToolCaller at the same time
Recorders == 1..MaxRecorders

Recorder(at, name, args, time, count) ==
    [at |-> at, name |-> name, args |-> args, time |-> time, count |-> count]

NoRecorders == [t \in Recorders |-> Recorder("absent", "None", NoArgs, 0, 0)]

ToolCallerUnused ==
    /\ det = NoDetCall
    /\ recorders = NoRecorders
    /\ h_turn = NoTurn
    /\ tool_call_count = 0
    /\ last_tool_name = "None"
    /\ last_tool_args = NoArgs
    /\ last_tool_call_time = 0
    /\ h_pc = "idle"
    /\ h_call = NoCall
    /\ h_result = NoCallResult
    /\ clock = 1
    /\ n_ops = 0
    /\ n_call_tool = 0

\* a TravelAgent has no MemoryManager, no ToolCaller and no profile store
HandlersUnused ==
    /\ memory = <<>>
    /\ ToolCallerUnused
    /\ ProfilesEmpty

\* TravelAgent.__init__
InitTravel ==
    /\ sys = "travel"
    /\ _memory = <<>>
    /\ interrupt_method \in {"system", "user"}
    /\ _interrupt_handled = FALSE
    /\ api_key \in BOOLEAN
    /\ pc = "idle"
    /\ turn = 0
    /\ messages = <<>>
    /\ retry = 0
    /\ response = ""
    /\ tool_calls = <<>>
    /\ futures = <<>>
    /\ results = <<>>
    /\ outcome = "none"
    /\ turn_failed = FALSE
    /\ cut_in_flight = FALSE
    /\ n_requested = 0
    /\ n_interrupts = 0
    /\ n_loads = 0
    /\ last_body = "None"
    /\ HandlersUnused

(***************************************************************************)
(* chat_with_memory, after _deepseek_function_call has returned `resp`     *)
(* (travel_agent.py 591-616): a failed function call falls back to the     *)
(* plain chat, whose _to_messages stores the user message; an empty answer *)
(* is stored at once (nothing to yield); anything else is streamed first.  *)
(***************************************************************************)
\* a variant that stores the answer a second time
StoreTurnTwice(mem, t, resp) ==
    _add_message(_add_message(_add_message(mem, UserText(t), "user"),
                              Answer(t, resp), "assistant"),
                 Answer(t, resp), "assistant")

StoreTurn(mem, t, resp) ==
    _add_message(_add_message(mem, UserText(t), "user"), Answer(t, resp), "assistant")

\* _to_messages: the user message is stored before the fallback stream starts
_to_messages(mem, t) == _add_message(mem, UserText(t), "user")

ReturnFC(resp) ==
    /\ messages' = <<>>
    /\ retry' = 0
    /\ IF FunctionCallFailed(resp)
       THEN /\ _memory' = _to_messages(_memory, turn')
            /\ pc' = "fallback_stream"
            /\ response' = ""
            /\ turn_failed' = TRUE
            /\ outcome' = "none"
       ELSE IF resp = ""
       THEN /\ _memory' = StoreTurn(_memory, turn', resp)
            /\ pc' = "idle"
            /\ response' = ""
            /\ turn_failed' = FALSE
            /\ outcome' = "completed"
       ELSE /\ pc' = "fc_stream"
            /\ response' = resp
            /\ turn_failed' = FALSE
            /\ outcome' = "none"
            /\ UNCHANGED _memory

(***************************************************************************)
(* A turn starts: chat_with_memory calls _deepseek_function_call.          *)
(***************************************************************************)
\* DEEPSEEK_API_KEY missing: "❌ ..." is returned before any request
StartTurnNoKey ==
    /\ sys = "travel" /\ pc = "idle" /\ turn < MaxTurns
    /\ ~api_key
    /\ turn' = turn + 1
    /\ n_requested' = 0
    /\ cut_in_flight' = FALSE
    /\ ReturnFC("x_no_key")
    /\ UNCHANGED <<sys, config_vars, pool_vars, handler_vars, last_body>>
    /\ UNCHANGED <<_interrupt_handled, n_interrupts, n_loads>>

\* the message list is built and the first request is sent
StartTurn ==
    /\ sys = "travel" /\ pc = "idle" /\ turn < MaxTurns
    /\ api_key
    /\ turn' = turn + 1
    /\ messages' = BuildMessages(_memory, turn')
    /\ pc' = "fc_request"
    /\ outcome' = "none"
    /\ turn_failed' = FALSE
    /\ cut_in_flight' = FALSE
    /\ n_requested' = 0
    /\ UNCHANGED <<sys, config_vars, pool_vars, handler_vars, last_body>>
    /\ UNCHANGED <<_memory, _interrupt_handled, retry, response, n_interrupts, n_loads>>

\* the first response fails (status code, transport or malformed body), or
\* carries no tool call: its content is the answer
FirstResponseDirect ==
    /\ sys = "travel" /\ pc = "fc_request"
    /\ UNCHANGED turn
    /\ \E resp \in {"x_status", "x_exception", "x_content", "None", "", "text"} :
          ReturnFC(resp)
    /\ UNCHANGED <<sys, config_vars, pool_vars, handler_vars, last_body>>
    /\ UNCHANGED <<_interrupt_handled, cut_in_flight, n_requested, n_interrupts, n_loads>>

\* the first response requests tools: the calling thread blocks in
\* _execute_tools_concurrently until it returns, then appends the assistant
\* message and one tool message per request to the request context
FirstResponseTools ==
    /\ sys = "travel" /\ pc = "fc_request"
    /\ \E tcs \in SeqsUpTo(TurnToolCallSet, MaxTurnCalls) :
       \E tool_results \in _execute_tools_concurrently(tcs) :
          /\ n_requested' = Len(tcs)
          /\ messages' = Append(messages, AssistantToolCallMessage(turn))
                            \o ToolMessages(tcs, tool_results, turn)
          /\ LET ran == {j \in 1..Len(tcs) : InvokesBody(tcs[j])}
             IN IF ran = {} THEN UNCHANGED last_body
                ELSE \E j \in ran : last_body' = tcs[j].name
    /\ retry' = 0
    /\ pc' = "final_request"
    /\ UNCHANGED <<sys, config_vars, pool_vars, handler_vars>>
    /\ UNCHANGED <<_memory, _interrupt_handled, turn, response, outcome, turn_failed,
                   cut_in_flight, n_interrupts, n_loads>>

(***************************************************************************)
(* The final-answer request and its retry loop (travel_agent.py 333-380).  *)
(***************************************************************************)
\* status != 200, an exception, or empty content, with a retry left
FinalRetry ==
    /\ sys = "travel" /\ pc = "final_request"
    /\ retry < max_retries - 1
    /\ retry' = retry + 1
    /\ UNCHANGED <<sys, config_vars, pool_vars, handler_vars, last_body, turn_history>>
    /\ UNCHANGED <<_memory, _interrupt_handled, pc, turn, messages, response, n_interrupts,
                   n_loads>>

\* what the model answers to the final request: a text, nothing, a text with
\* markdown and the residue of a tool call in it, or nothing but such residue
\* ("functionget_weather")
FinalContents == {"text", "", "marked_text", "function_marker"}

\* _validate_and_clean_response: tool-call residue and markdown are removed, unless
\* less than a fifth of the content would be left: then the content is returned as
\* it came
_validate_and_clean_response(content) ==
    IF content = "marked_text" THEN "text" ELSE content

\* a retry loop that returns final_content as it is
AfterRetryLoopUnchecked(final_content) == final_content

\* what _deepseek_function_call returns when the retry loop has ended on
\* final_content: `if not final_content: return <apology>` else final_content
AfterRetryLoop(final_content) ==
    IF final_content = "" THEN "apology" ELSE final_content

\* the final content is accepted, or the last attempt ends the loop
FinalResponse ==
    /\ sys = "travel" /\ pc = "final_request"
    /\ UNCHANGED turn
    /\ \E final \in {"content", "status", "exception"} :
          CASE final = "content" ->
                 \E final_content \in FinalContents :
                    IF final_content # "" /\ _validate_and_clean_response(final_content) # ""
                    THEN ReturnFC(AfterRetryLoop(_validate_and_clean_response(final_content)))
                    ELSE /\ retry = max_retries - 1
                         /\ ReturnFC(AfterRetryLoop(final_content))
            [] final = "status" -> retry = max_retries - 1 /\ ReturnFC("x_final_status")
            [] final = "exception" -> retry = max_retries - 1 /\ ReturnFC("x_exception")
    /\ UNCHANGED <<sys, config_vars, pool_vars, handler_vars, last_body>>
    /\ UNCHANGED <<_interrupt_handled, cut_in_flight, n_requested, n_interrupts, n_loads>>

(***************************************************************************)
(* Streaming the answer (the suspension points of chat_with_memory).       *)
(***************************************************************************)
\* the function-calling answer has been yielded: user and assistant are stored
FinishFCStream ==
    /\ sys = "travel" /\ pc = "fc_stream"
    /\ _memory' = StoreTurn(_memory, turn, response)
    /\ outcome' = "completed"
    /\ pc' = "idle"
    /\ response' = ""
    /\ UNCHANGED <<sys, config_vars, call_vars, pool_vars, handler_vars, last_body>>
    /\ UNCHANGED <<_interrupt_handled, turn, turn_failed, cut_in_flight, n_requested,
                   n_interrupts, n_loads>>

\* the fallback LLM stream ends: the complete response is stored
FinishFallbackStream ==
    /\ sys = "travel" /\ pc = "fallback_stream"
    /\ \E complete_response \in {"", "text"} :
          _memory' = _add_message(_memory, Answer(turn, complete_response), "assistant")
    /\ outcome' = "completed"
    /\ pc' = "idle"
    /\ UNCHANGED <<sys, config_vars, call_vars, pool_vars, handler_vars, last_body>>
    /\ UNCHANGED <<_interrupt_handled, turn, response, turn_failed, cut_in_flight,
                   n_requested, n_interrupts, n_loads>>

\* the fallback LLM stream raises: the exception leaves chat_with_memory
FallbackStreamRaises ==
    /\ sys = "travel" /\ pc = "fallback_stream"
    /\ outcome' = "raised"
    /\ pc' = "idle"
    /\ UNCHANGED <<sys, config_vars, call_vars, pool_vars, handler_vars, last_body>>
    /\ UNCHANGED <<_memory, _interrupt_handled, turn, response, turn_failed, cut_in_flight,
                   n_requested, n_interrupts, n_loads>>

\* the consumer closes the generator of an interrupted turn at its yield
CancelStream ==
    /\ sys = "travel" /\ pc \in {"fc_stream", "fallback_stream"}
    /\ _interrupt_handled
    /\ pc' = "idle"
    /\ outcome' = "cancelled"
    /\ response' = ""
    /\ UNCHANGED <<sys, config_vars, call_vars, pool_vars, handler_vars, last_body>>
    /\ UNCHANGED <<_memory, _interrupt_handled, turn, turn_failed, cut_in_flight,
                   n_requested, n_interrupts, n_loads>>

(***************************************************************************)
(* TravelAgent.handle_interrupt / reset_interrupt / set_memory_from_history*)
(***************************************************************************)
InterruptRole(method) == IF method = "system" THEN "system" ELSE "user"

\* the memory handle_interrupt(heard_response) leaves, the flag being clear
handle_interrupt(mem, method, t, heard) ==
    IF mem # <<>> /\ Last(mem).role = "assistant"
    THEN [mem EXCEPT ![Len(mem)].content = Truncated(t, heard)]
    ELSE LET withHeard == IF heard # ""
                          THEN Append(mem, Msg("assistant", Truncated(t, heard), ""))
                          ELSE mem
         IN Append(withHeard, Msg(InterruptRole(method), InterruptedMarker, ""))

HeardResponses == {"", "heard"}

\* a handle_interrupt that looks at no flag
interrupt_never_handled(handled) == FALSE

\* `if self._interrupt_handled: return`
interrupt_handled(handled) == handled

\* handle_interrupt runs on the event loop: between turns, or while a turn is
\* suspended at a yield of its stream
HandleInterrupt ==
    /\ sys = "travel" /\ pc \in {"idle", "fc_stream", "fallback_stream"}
    /\ n_interrupts < MaxInterrupts
    /\ n_interrupts' = n_interrupts + 1
    /\ \E heard \in HeardResponses :
          IF interrupt_handled(_interrupt_handled)
          THEN UNCHANGED <<_memory, _interrupt_handled, cut_in_flight>>
          ELSE /\ _interrupt_handled' = TRUE
               /\ _memory' = handle_interrupt(_memory, interrupt_method, turn, heard)
               /\ cut_in_flight' = (cut_in_flight \/ (pc # "idle" /\ heard # ""))
    /\ UNCHANGED <<sys, config_vars, call_vars, pool_vars, handler_vars, last_body>>
    /\ UNCHANGED <<pc, turn, response, outcome, turn_failed, n_requested, n_loads>>

ResetInterrupt ==
    /\ sys = "travel" /\ pc \in {"idle", "fc_stream", "fallback_stream"}
    /\ _interrupt_handled
    /\ _interrupt_handled' = FALSE
    /\ UNCHANGED <<sys, config_vars, call_vars, pool_vars, handler_vars, last_body,
                   turn_history>>
    /\ UNCHANGED <<_memory, pc, turn, response, n_interrupts, n_loads>>

\* get_history(conf_uid, history_uid): the stored messages, "human" or "ai"
Histories == {<<>>, <<"human", "ai">>}

set_memory_from_history(mem, hist) ==
    Append(mem, Msg("system", SystemPrompt, ""))
      \o [i \in 1..Len(hist) |->
            Msg(IF hist[i] = "human" THEN "user" ELSE "assistant", HistoryText(hist[i]), "")]

SetMemoryFromHistory ==
    /\ sys = "travel" /\ pc = "idle"
    /\ n_loads < MaxLoads
    /\ n_loads' = n_loads + 1
    /\ \E hist \in Histories : _memory' = set_memory_from_history(_memory, hist)
    /\ UNCHANGED <<sys, config_vars, call_vars, pool_vars, handler_vars, last_body,
                   turn_history>>
    /\ UNCHANGED <<_interrupt_handled, pc, turn, response, n_interrupts>>

NextTravel ==
    \/ StartTurnNoKey
    \/ StartTurn
    \/ FirstResponseDirect
    \/ FirstResponseTools
    \/ FinalRetry
    \/ FinalResponse
    \/ FinishFCStream
    \/ FinishFallbackStream
    \/ FallbackStreamRaises
    \/ CancelStream
    \/ HandleInterrupt
    \/ ResetInterrupt
    \/ SetMemoryFromHistory

SpecTravel == InitTravel /\ [][NextTravel]_vars

(***************************************************************************)
(* _execute_tools_concurrently, step by step (sys = "dispatch"): the pool's *)
(* workers and the collection loop of the calling thread run concurrently. *)
(***************************************************************************)
\* one call _execute_tools_concurrently(tool_calls), every call submitted
InitDispatch ==
    /\ sys = "dispatch"
    /\ _memory = <<>>
    /\ interrupt_method = "user"
    /\ _interrupt_handled = FALSE
    /\ api_key = TRUE
    /\ pc = "dispatch"
    /\ turn = 1
    /\ messages = <<>>
    /\ retry = 0
    /\ response = ""
    /\ tool_calls \in SeqsUpTo(ToolCallSet, MaxCalls)
    /\ futures = SubmitAll(tool_calls)
    /\ results = <<>>
    /\ outcome = "none"
    /\ turn_failed = FALSE
    /\ cut_in_flight = FALSE
    /\ n_requested = Len(tool_calls)
    /\ n_interrupts = 0
    /\ n_loads = 0
    /\ last_body = "None"
    /\ HandlersUnused

dispatch_frame ==
    UNCHANGED <<sys, config_vars, turn_history, agent_vars, handler_vars, retry, tool_calls>>

\* a free worker takes the oldest queued call
StartExec ==
    /\ sys = "dispatch" /\ pc = "dispatch"
    /\ Queued(futures) # {}
    /\ Cardinality(Running(futures)) < max_workers(tool_calls)
    /\ LET i == CHOOSE q \in Queued(futures) : \A r \in Queued(futures) : q <= r
       IN futures' = [futures EXCEPT ![i].st = "running"]
    /\ UNCHANGED <<results, messages, last_body>>
    /\ dispatch_frame

\* a running call ends: execute_single_tool returns or raises
FinishExec ==
    /\ sys = "dispatch" /\ pc = "dispatch"
    /\ \E i \in Running(futures), body \in Bodies :
          LET out == execute_single_tool(tool_calls[i], body)
          IN /\ futures' = [futures EXCEPT ![i] = Future("done", out.raised, out.res)]
             /\ last_body' = IF InvokesBody(tool_calls[i]) THEN tool_calls[i].name
                             ELSE last_body
    /\ UNCHANGED <<results, messages>>
    /\ dispatch_frame

\* the collection loop takes the next request's result from a finished future
Collect ==
    /\ sys = "dispatch" /\ pc = "dispatch"
    /\ Len(results) < Len(tool_calls)
    /\ LET j == Len(results) + 1
           f == MatchingFuture(tool_calls, j)
       IN /\ futures[f].st = "done"
          /\ results' = Append(results, Collected(futures[f], tool_calls[j]))
    /\ UNCHANGED <<futures, messages, last_body>>
    /\ dispatch_frame

\* future.result(timeout=30) gives up on a future that has not finished
CollectTimeout ==
    /\ sys = "dispatch" /\ pc = "dispatch"
    /\ Len(results) < Len(tool_calls)
    /\ LET j == Len(results) + 1
           f == MatchingFuture(tool_calls, j)
       IN /\ futures[f].st # "done"
          /\ results' = Append(results, TimeoutResult(tool_calls[j]))
    /\ UNCHANGED <<futures, messages, last_body>>
    /\ dispatch_frame

\* the `with` block ends when every worker is done and `results` is returned;
\* the caller zips it with the requests into tool messages
DispatchDone ==
    /\ sys = "dispatch" /\ pc = "dispatch"
    /\ Len(results) = Len(tool_calls)
    /\ \A i \in 1..Len(futures) : futures[i].st = "done"
    /\ messages' = ToolMessages(tool_calls, results, turn)
    /\ pc' = "dispatched"
    /\ UNCHANGED <<sys, config_vars, turn_history, handler_vars, retry, tool_calls>>
    /\ UNCHANGED <<_memory, _interrupt_handled, turn, response, n_interrupts, n_loads>>
    /\ UNCHANGED <<futures, results, last_body>>

NextDispatch ==
    \/ StartExec
    \/ FinishExec
    \/ Collect
    \/ CollectTimeout
    \/ DispatchDone

SpecDispatch == InitDispatch /\ [][NextDispatch]_vars

\* the pool's workers are threads of the operating system: a free worker takes a
\* queued call, a running tool function ends, the collecting thread goes on
SpecDispatchFair ==
    /\ SpecDispatch
    /\ WF_vars(StartExec)
    /\ WF_vars(FinishExec)
    /\ WF_vars(Collect \/ CollectTimeout)
    /\ WF_vars(DispatchDone)

(***************************************************************************)
(* MemoryManager (utils/memory_manager.py).                                *)
(***************************************************************************)
\* "[用户打断了对话]"
UserInterruptedMarker == [k |-> "user_interrupted", t |-> 0, h |-> ""]

\* MemoryManager.__init__
MemoryManager_init == <<Msg("system", SystemPrompt, "")>>

add_user_message(mem, message) == Append(mem, Msg("user", message, ""))

add_assistant_message(mem, message) == Append(mem, Msg("assistant", message, ""))

\* json.dumps(result, ensure_ascii=False)
json_dumps(result) ==
    IF result.error = "unknown_tool" THEN "json_error_unknown_tool"
    ELSE IF result.error = "tool_failed" THEN "json_error_tool_failed"
    ELSE result.value

\* the tool message carries the tool's name (third field) instead of a call id
add_tool_result(mem, tool_name, result) ==
    Append(mem, Msg("tool", ToolText(0, json_dumps(result)), tool_name))

\* a variant that drops the answer that was cut short
handle_interrupt_dropping(mem, heard_response) ==
    LET cut == IF mem # <<>> /\ Last(mem).role = "assistant"
               THEN SubSeq(mem, 1, Len(mem) - 1)
               ELSE mem
    IN Append(cut, Msg("system", UserInterruptedMarker, ""))

MemoryManager_handle_interrupt(mem, heard_response) ==
    LET cut == IF mem # <<>> /\ Last(mem).role = "assistant"
               THEN [mem EXCEPT ![Len(mem)].content = Truncated(0, heard_response)]
               ELSE mem
    IN Append(cut, Msg("system", UserInterruptedMarker, ""))

(***************************************************************************)
(* ToolRegistry and ToolCaller (utils/tool_registry.py, tool_caller.py).   *)
(***************************************************************************)
_tool_functions ==
    {"get_current_temperature", "get_temperature_date", "get_traffic_status",
     "get_route_traffic", "collect_user_info", "generate_travel_itinerary",
     "generate_packing_list", "find_nearby_facilities", "get_scenic_spot_info",
     "analyze_travel_photo", "generate_social_media_post"}

\* ToolCaller.call_tool: `body` is what the tool function does this time
call_tool(name, body) ==
    IF name \notin _tool_functions THEN CallResult("unknown_tool", name, "")
    ELSE IF body = "raise" THEN CallResult("tool_failed", "", "")
    ELSE CallResult("", "", body)

\* a count that is not kept
increment_call_count_skipped(count) == count

increment_call_count(count) == count + 1

\* the image payloads a caller may attach, and the text recorded in their place
RawImages == {"base64_image"}
ImagePlaceholder == "[image data]"

HasRawImage(args) == \E p \in args : p[2] \in RawImages

(***************************************************************************)
(* The capability handlers (handlers/*.py): what handle() is about to      *)
(* call, and what it records about the call.                               *)
(***************************************************************************)
\* WeatherHandler.handle: params of the detector, recorded as they are
WeatherCall(location) ==
    LET params == {<<"location", location>>}
    IN ToolCall("get_current_temperature", params, params, FALSE)

\* a variant that records the arguments as they are passed to the tool
RecordedRawArgs(image_data) == {<<"image_data", image_data>>}

\* tool_args recorded by ImageAnalysisHandler for analyze_travel_photo
RecordedImageArgs(image_data) == {<<"image_data", ImagePlaceholder>>}

\* ImageAnalysisHandler.handle and SocialMediaHandler.handle: the photo analysis;
\* chain: a social-media post is to follow
PhotoCall(image_data, is_social_media) ==
    ToolCall("analyze_travel_photo", {<<"image_data", image_data>>},
             RecordedImageArgs(image_data), is_social_media)

InitHandlers ==
    /\ sys = "handlers"
    /\ _memory = <<>>
    /\ interrupt_method = "user"
    /\ _interrupt_handled = FALSE
    /\ api_key = TRUE
    /\ pc = "idle"
    /\ turn = 0
    /\ messages = <<>>
    /\ retry = 0
    /\ response = ""
    /\ tool_calls = <<>>
    /\ futures = <<>>
    /\ results = <<>>
    /\ outcome = "none"
    /\ turn_failed = FALSE
    /\ cut_in_flight = FALSE
    /\ n_requested = 0
    /\ n_interrupts = 0
    /\ n_loads = 0
    /\ last_body = "None"
    /\ memory = MemoryManager_init
    /\ ToolCallerUnused
    /\ ProfilesEmpty

\* dict.get(key): None when the key is not there
None == "None"
Get(params, key) ==
    IF \E p \in params : p[1] = key
    THEN (CHOOSE p \in params : p[1] = key)[2]
    ELSE None

\* a user text, as the detectors' patterns see it: the place it names (or None) and
\* how it gives the dates: as a range, as a number of days, or not at all
Text(place, dates) == [place |-> place, dates |-> dates]
TripTexts ==
    {Text(p, d) : p \in {None, "Yunnan"}, d \in {None, "days", "range", "range_and_days"}}
RouteTexts == {Text(None, None), Text("Yunnan", None)}
SocialTexts == {Text(None, None), Text("Yunnan", None)}
UserInfoTexts == {Text(None, None), Text("Yunnan", "range")}

\* the number of days a text with a day count asks for
DayCount == 5

\* the text has an explicit date range (with or without a day count beside it)
HasRange(text) == text.dates \in {"range", "range_and_days"}

\* date.strftime("%Y-%m-%d") of the day-th day
strftime(day) == "day_" \o ToString(day)

\* the start and the end date found under the keys k1 and k2: the range of the
\* text when date_pattern matches; else today and the N-th day from today when
\* days_pattern matches; else today and the third day from today
ExtractedDates(text, today, k1, k2) ==
    IF HasRange(text)
    THEN {<<k1, "given_start">>, <<k2, "given_end">>}
    ELSE IF text.dates = "days"
    THEN {<<k1, strftime(today)>>, <<k2, strftime(today + DayCount - 1)>>}
    ELSE {<<k1, strftime(today)>>, <<k2, strftime(today + 2)>>}

Found(key, value) == IF value = None THEN {} ELSE {<<key, value>>}

\* <Detector>.extract_params(text) of the detector each handler creates; today is
\* what datetime.now() returns during the call
extract_params(handler, text, today) ==
    IF handler = "itinerary"
    THEN Found("destination", text.place)
           \cup ExtractedDates(text, today, "start_date", "end_date")
           \cup {<<"user_preferences", "preferences">>}
    ELSE IF handler = "packing"
    THEN Found("destination", text.place)
           \cup ExtractedDates(text, today, "travel_dates.start_date", "travel_dates.end_date")
           \cup {<<"travel_style", "leisure">>}
    ELSE IF handler = "route"
    THEN Found("destination", text.place)
           \cup Found("origin", IF text.place = None THEN None ELSE "current_position")
    ELSE IF handler = "social_media"
    THEN Found("location", text.place) \cup {<<"platform", "general">>, <<"style", "travel">>}
    ELSE Found("destination", text.place)
           \cup (IF HasRange(text)
                 THEN {<<"start_date", "given_start">>, <<"end_date", "given_end">>}
                 ELSE {})

\* RouteHandler.handle: params of the detector, recorded as they are
RouteCall(params) == ToolCall("get_route_traffic", params, params, FALSE)

\* UserInfoHandler.handle: the update of the profile
CollectCall(params) ==
    LET args == {<<"user_id", "u1">>, <<"info", Get(params, "info")>>}
    IN ToolCall("collect_user_info", args, args, FALSE)

\* a variant that takes every request that is not a query for an update with a payload
user_info_branch_collecting(params) ==
    IF Get(params, "action") = "query" THEN "query" ELSE "collect"

\* UserInfoHandler.handle: query, update without an info payload, update
user_info_branch(params) ==
    IF Get(params, "action") = "query" THEN "query"
    ELSE IF Get(params, "info") = None THEN "clarification"
    ELSE "collect"

handlers_frame == UNCHANGED <<sys, travel_vars, profile_vars, det, recorders>>
bookkeeping == <<tool_call_count, last_tool_name, last_tool_args, last_tool_call_time, clock>>

\* a handler starts: handle(text, image_data) is entered, params are extracted
Enter(handler, params) ==
    /\ sys = "handlers" /\ h_pc = "idle" /\ n_ops < MaxOps
    /\ n_ops' = n_ops + 1
    /\ h_turn' = Turn(n_ops', handler, params, "none", <<>>)

\* a handler starts and is left at once: handle() returns its canned clarification
\* message (ret = "clarification") or is left by an exception (ret = "raised")
EnterAndLeave(handler, params, ret) ==
    /\ sys = "handlers" /\ h_pc = "idle" /\ n_ops < MaxOps
    /\ n_ops' = n_ops + 1
    /\ h_turn' = Turn(n_ops', handler, params, ret, <<>>)
    /\ h_pc' = "idle"

\* a handler returns at once: WeatherHandler without a location,
\* ImageAnalysisHandler without an image
HandleClarify ==
    /\ \E handler \in {"weather", "image"} : EnterAndLeave(handler, NoArgs, "clarification")
    /\ UNCHANGED <<memory, bookkeeping, h_call, h_result, n_call_tool, last_body>>
    /\ handlers_frame

\* WeatherHandler.handle with a location
HandleWeather ==
    /\ Enter("weather", {<<"location", "Paris">>})
    /\ h_call' = WeatherCall("Paris")
    /\ h_pc' = "record"
    /\ UNCHANGED <<memory, bookkeeping, h_result, n_call_tool, last_body>>
    /\ handlers_frame

\* ImageAnalysisHandler.handle with an image
HandleImage ==
    /\ \E image_data \in RawImages, is_social_media \in BOOLEAN :
          /\ Enter("image", IF is_social_media THEN {<<"cue", "moments">>} ELSE NoArgs)
          /\ h_call' = PhotoCall(image_data, is_social_media)
    /\ h_pc' = "record"
    /\ UNCHANGED <<memory, bookkeeping, h_result, n_call_tool, last_body>>
    /\ handlers_frame

\* RouteHandler.handle
HandleRoute ==
    /\ \E text \in RouteTexts :
          LET params == extract_params("route", text, clock)
          IN IF Get(params, "origin") = None \/ Get(params, "destination") = None
             THEN EnterAndLeave("route", params, "clarification") /\ UNCHANGED h_call
             ELSE Enter("route", params) /\ h_call' = RouteCall(params) /\ h_pc' = "record"
    /\ UNCHANGED <<memory, bookkeeping, h_result, n_call_tool, last_body>>
    /\ handlers_frame

\* ItineraryHandler.handle and PackingHandler.handle: both want a destination and a
\* duration; past that check they ask the profile store for get_user_preferences,
\* which UserProfileManager does not have
HandleItinerary ==
    /\ \E handler \in {"itinerary", "packing"}, text \in TripTexts :
          LET params == extract_params(handler, text, clock)
          IN IF Get(params, "destination") = None \/ Get(params, "duration") = None
             THEN EnterAndLeave(handler, params, "clarification")
             ELSE EnterAndLeave(handler, params, "raised")
    /\ UNCHANGED <<memory, bookkeeping, h_call, h_result, n_call_tool, last_body>>
    /\ handlers_frame

\* SocialMediaHandler.handle: with an image the photo analysis comes first; the
\* trip info of the profile is asked for after it
HandleSocialMedia ==
    /\ \E text \in SocialTexts :
          LET params == extract_params("social_media", text, clock)
          IN \/ /\ Enter("social_media", params)
                /\ \E image_data \in RawImages : h_call' = PhotoCall(image_data, TRUE)
                /\ h_pc' = "record"
             \/ EnterAndLeave("social_media", params, "raised") /\ UNCHANGED h_call
    /\ UNCHANGED <<memory, bookkeeping, h_result, n_call_tool, last_body>>
    /\ handlers_frame

\* UserInfoHandler.handle
HandleUserInfo ==
    /\ \E text \in UserInfoTexts :
          LET params == extract_params("user_info", text, clock)
              branch == user_info_branch(params)
          IN \/ /\ branch = "query"
                /\ EnterAndLeave("user_info", params, "raised") /\ UNCHANGED h_call
             \/ /\ branch = "clarification"
                /\ EnterAndLeave("user_info", params, "clarification") /\ UNCHANGED h_call
             \/ /\ branch = "collect"
                /\ Enter("user_info", params)
                /\ h_call' = CollectCall(params)
                /\ h_pc' = "record"
    /\ UNCHANGED <<memory, bookkeeping, h_result, n_call_tool, last_body>>
    /\ handlers_frame

\* increment_call_count(); set_last_call_info(tool_name, tool_args, datetime.now())
RecordCall ==
    /\ sys = "handlers" /\ h_pc = "record"
    /\ tool_call_count' = increment_call_count(tool_call_count)
    /\ last_tool_name' = h_call.name
    /\ last_tool_args' = h_call.recorded
    /\ \E now \in {clock, clock + 1} :
          /\ clock' = now
          /\ last_tool_call_time' = now
    /\ h_pc' = "call"
    /\ UNCHANGED <<memory, h_call, h_result, h_turn, n_ops, n_call_tool, last_body>>
    /\ handlers_frame

\* self.tool_caller.call_tool(name, args): the tool function runs
CallTool ==
    /\ sys = "handlers" /\ h_pc = "call"
    /\ \E body \in Bodies : h_result' = call_tool(h_call.name, body)
    /\ n_call_tool' = n_call_tool + 1
    /\ last_body' = IF h_call.name \in _tool_functions THEN h_call.name ELSE last_body
    /\ h_turn' = [h_turn EXCEPT !.called = Append(@, h_call.name)]
    /\ h_pc' = "store"
    /\ UNCHANGED <<memory, bookkeeping, h_call, n_ops>>
    /\ handlers_frame

\* self.memory_manager.add_tool_result(name, result); where a social-media post is
\* to follow, self.user_manager.get_user_trip_info is asked for next, which
\* UserProfileManager does not have
StoreResult ==
    /\ sys = "handlers" /\ h_pc = "store"
    /\ memory' = add_tool_result(memory, h_call.name, h_result)
    /\ IF h_call.chain
       THEN h_pc' = "idle" /\ h_turn' = [h_turn EXCEPT !.ret = "raised"]
       ELSE h_pc' = "llm" /\ UNCHANGED h_turn
    /\ UNCHANGED <<bookkeeping, h_call, h_result, n_ops, n_call_tool, last_body>>
    /\ handlers_frame

\* the LLM stream of the handler ends (or raises): handle() is left
FinishHandler ==
    /\ sys = "handlers" /\ h_pc = "llm"
    /\ h_pc' = "idle"
    /\ h_turn' = [h_turn EXCEPT !.ret = "answer"]
    /\ UNCHANGED <<memory, bookkeeping, h_call, h_result, n_ops, n_call_tool, last_body>>
    /\ handlers_frame

\* a caller other than a handler calls ToolCaller.call_tool(name, arguments)
DirectNames == {"get_current_temperature", "analyze_travel_photo", "does_not_exist"}

DirectArgs(name) ==
    IF name = "analyze_travel_photo" THEN {{<<"image_data", i>>} : i \in RawImages}
    ELSE {NoArgs}

DirectCallTool ==
    /\ sys = "handlers" /\ h_pc = "idle" /\ n_ops < MaxOps
    /\ n_ops' = n_ops + 1
    /\ \E name \in DirectNames, body \in Bodies :
          /\ \E args \in DirectArgs(name) : h_call' = ToolCall(name, args, NoArgs, FALSE)
          /\ h_result' = call_tool(name, body)
          /\ last_body' = IF name \in _tool_functions THEN name ELSE last_body
    /\ n_call_tool' = n_call_tool + 1
    /\ UNCHANGED <<memory, bookkeeping, h_pc, h_turn>>
    /\ handlers_frame

\* the owner of the MemoryManager stores a user or an assistant message
AddUserMessage ==
    /\ sys = "handlers" /\ h_pc = "idle" /\ n_ops < MaxOps
    /\ n_ops' = n_ops + 1
    /\ memory' = add_user_message(memory, UserText(n_ops'))
    /\ UNCHANGED <<bookkeeping, h_pc, h_call, h_result, h_turn, n_call_tool, last_body>>
    /\ handlers_frame

AddAssistantMessage ==
    /\ sys = "handlers" /\ h_pc = "idle" /\ n_ops < MaxOps
    /\ n_ops' = n_ops + 1
    /\ memory' = add_assistant_message(memory, Answer(n_ops', "text"))
    /\ UNCHANGED <<bookkeeping, h_pc, h_call, h_result, h_turn, n_call_tool, last_body>>
    /\ handlers_frame

\* MemoryManager.handle_interrupt, between handlers or while one awaits its LLM
MemoryInterrupt ==
    /\ sys = "handlers" /\ h_pc \in {"idle", "llm"} /\ n_ops < MaxOps
    /\ n_ops' = n_ops + 1
    /\ \E heard \in HeardResponses :
          memory' = MemoryManager_handle_interrupt(memory, heard)
    /\ UNCHANGED <<bookkeeping, h_pc, h_call, h_result, h_turn, n_call_tool, last_body>>
    /\ handlers_frame

NextHandlers ==
    \/ HandleClarify
    \/ HandleWeather
    \/ HandleImage
    \/ HandleRoute
    \/ HandleItinerary
    \/ HandleSocialMedia
    \/ HandleUserInfo
    \/ RecordCall
    \/ CallTool
    \/ StoreResult
    \/ FinishHandler
    \/ DirectCallTool
    \/ AddUserMessage
    \/ AddAssistantMessage
    \/ MemoryInterrupt

SpecHandlers == InitHandlers /\ [][NextHandlers]_vars

(***************************************************************************)
(* The operations of one UserProfileManager (sys = "profiles").            *)
(***************************************************************************)
\* no TravelAgent in this object graph
TravelUnused ==
    /\ _memory = <<>>
    /\ interrupt_method = "user"
    /\ _interrupt_handled = FALSE
    /\ api_key = TRUE
    /\ pc = "idle"
    /\ turn = 0
    /\ messages = <<>>
    /\ retry = 0
    /\ response = ""
    /\ tool_calls = <<>>
    /\ futures = <<>>
    /\ results = <<>>
    /\ outcome = "none"
    /\ turn_failed = FALSE
    /\ cut_in_flight = FALSE
    /\ n_requested = 0
    /\ n_interrupts = 0
    /\ n_loads = 0
    /\ last_body = "None"

\* UserProfileManager.__init__ without a storage file
InitProfiles ==
    /\ sys = "profiles"
    /\ TravelUnused
    /\ memory = <<>>
    /\ ToolCallerUnused
    /\ ProfilesEmpty

\* the readings of datetime.now() available to a call: the clock never runs back
Readings == clock..MaxClock

profiles_frame ==
    UNCHANGED <<sys, travel_vars, last_body, memory, tool_call_count, last_tool_name,
                last_tool_args, last_tool_call_time, h_pc, h_call, h_result, n_call_tool,
                h_turn, det, recorders>>

\* one call of a store operation: its outcome is applied, the call is noted
StoreCall(op, user_id, info, out, first, last) ==
    /\ user_profiles' = out.profiles
    /\ p_op' = StoreOp(op, user_id, info, out.result, first, last)
    /\ clock' = last
    /\ n_ops' = n_ops + 1
    /\ profiles_frame

CollectUserInfo ==
    /\ sys = "profiles" /\ n_ops < MaxStoreOps
    /\ \E user_id \in Users, info \in Infos, now1 \in Readings :
       \E now3 \in now1..MaxClock :
          StoreCall("collect_user_info", user_id, info,
                    collect_user_info(user_profiles, user_id, info, now1, now3), now1, now3)

AddTravelHistory ==
    /\ sys = "profiles" /\ n_ops < MaxStoreOps
    /\ \E user_id \in Users, now1 \in Readings :
       \E now2 \in now1..MaxClock :
          StoreCall("add_travel_history", user_id, NoInfo,
                    add_travel_history(user_profiles, user_id, now1, now2), now1, now2)

CollectFeedback ==
    /\ sys = "profiles" /\ n_ops < MaxStoreOps
    /\ \E user_id \in Users, now1 \in Readings :
       \E now2 \in now1..MaxClock :
          StoreCall("collect_feedback", user_id, NoInfo,
                    collect_feedback(user_profiles, user_id, now1, now2), now1, now2)

AnalyzePreferences ==
    /\ sys = "profiles" /\ n_ops < MaxStoreOps
    /\ \E user_id \in Users :
          StoreCall("analyze_preferences", user_id, NoInfo,
                    analyze_preferences(user_profiles, user_id), clock, clock)

UpdateUserPreferences ==
    /\ sys = "profiles" /\ n_ops < MaxStoreOps
    /\ \E user_id \in Users, now1 \in Readings :
          StoreCall("update_user_preferences", user_id, NoInfo,
                    update_user_preferences(user_profiles, user_id, now1), now1, now1)

NextProfiles ==
    \/ CollectUserInfo
    \/ AddTravelHistory
    \/ CollectFeedback
    \/ AnalyzePreferences
    \/ UpdateUserPreferences

SpecProfiles == InitProfiles /\ [][NextProfiles]_vars

(***************************************************************************)
(* The intent detectors and the handler selection (sys = "detectors"):     *)
(* intent_detectors/*.py, HandlerFactory.get_handler of                    *)
(* handlers/base_handler.py.  clock is the day datetime.now() falls on.    *)
(***************************************************************************)
\* the detectors that extract dates, and the texts given to them
Detectors == {"itinerary", "packing", "user_info", "route", "social_media"}

\* the intents dict given to get_handler: whether its text holds an analysis or a
\* recognition cue word, the intents that matched, and whether the weather intent
\* carries a location
IntentNames == {"weather", "traffic", "itinerary"}
IntentDicts ==
    {[cue |-> c, matched |-> ms, location |-> l] :
        c \in BOOLEAN, ms \in SUBSET IntentNames, l \in BOOLEAN}

\* the handler get_handler returned (None when it raised) and the exception
Selection(selected, raised) == [selected |-> selected, raised |-> raised]

\* HandlerFactory.get_handler(intents, image_data): the names ImageAnalysisHandler and
\* DefaultHandler are bound nowhere in the module, and its WeatherHandler neither
\* implements handle nor passes current_user_id on
get_handler(intents, image_data) ==
    IF image_data /\ intents.cue THEN Selection(None, "NameError")
    ELSE IF "weather" \in intents.matched /\ intents.location
    THEN Selection(None, "TypeError")
    ELSE Selection(None, "NameError")

InitDetectors ==
    /\ sys = "detectors"
    /\ TravelUnused
    /\ memory = <<>>
    /\ ToolCallerUnused
    /\ ProfilesEmpty

detectors_frame ==
    UNCHANGED <<sys, travel_vars, last_body, memory, tool_call_count, last_tool_name,
                last_tool_args, last_tool_call_time, h_pc, h_call, h_result, n_call_tool,
                h_turn, recorders, profile_vars>>

\* <Detector>().extract_params(text)
ExtractParams ==
    /\ sys = "detectors" /\ n_ops < MaxDetOps
    /\ \E detector \in Detectors, text \in TripTexts :
          det' = DetCall("extract_params", detector, text, NoIntents, FALSE,
                         extract_params(detector, text, clock), None, None)
    /\ n_ops' = n_ops + 1
    /\ UNCHANGED clock
    /\ detectors_frame

\* HandlerFactory.get_handler(intents, image_data)
GetHandler ==
    /\ sys = "detectors" /\ n_ops < MaxDetOps
    /\ \E intents \in IntentDicts, image_data \in BOOLEAN :
          LET sel == get_handler(intents, image_data)
          IN det' = DetCall("get_handler", "None", NoDetCall.text, intents, image_data,
                            NoArgs, sel.selected, sel.raised)
    /\ n_ops' = n_ops + 1
    /\ UNCHANGED clock
    /\ detectors_frame

\* midnight passes
NextDay ==
    /\ sys = "detectors" /\ clock < MaxClock
    /\ clock' = clock + 1
    /\ UNCHANGED <<det, n_ops>>
    /\ detectors_frame

NextDetectors ==
    \/ ExtractParams
    \/ GetHandler
    \/ NextDay

SpecDetectors == InitDetectors /\ [][NextDetectors]_vars

(***************************************************************************)
(* ToolCaller under concurrent recording (utils/tool_caller.py): several   *)
(* threads run increment_call_count() and set_last_call_info() on one      *)
(* ToolCaller. The class holds no lock; a thread may be descheduled        *)
(* between any two of its reads and writes of an attribute.                *)
(***************************************************************************)
RecordedNames == {"get_current_temperature", "analyze_travel_photo"}

\* ToolCaller.__init__, and the calls the threads are about to record
InitRecorders ==
    /\ sys = "recorders"
    /\ TravelUnused
    /\ memory = <<>>
    /\ ProfilesEmpty
    /\ det = NoDetCall
    /\ h_turn = NoTurn
    /\ tool_call_count = 0
    /\ last_tool_name = "None"
    /\ last_tool_args = NoArgs
    /\ last_tool_call_time = 0
    /\ h_pc = "idle"
    /\ h_call = NoCall
    /\ h_result = NoCallResult
    /\ clock = 1
    /\ n_ops = 0
    /\ n_call_tool = 0
    /\ \E names \in [Recorders -> RecordedNames] :
          recorders = [t \in Recorders |->
                         Recorder("load", names[t], {<<"request", t>>}, 0, 0)]

recorders_frame ==
    UNCHANGED <<sys, travel_vars, last_body, memory, h_pc, h_call, h_result, n_ops,
                n_call_tool, h_turn, det, profile_vars>>

\* a thread moves on
Moves(t, at, next) ==
    /\ sys = "recorders"
    /\ recorders[t].at = at
    /\ recorders' = [recorders EXCEPT ![t].at = next]

\* increment_call_count, first half: self.tool_call_count is read
LoadCount ==
    /\ \E t \in Recorders :
          /\ sys = "recorders"
          /\ recorders[t].at = "load"
          /\ recorders' = [recorders EXCEPT ![t].at = "store", ![t].count = tool_call_count]
    /\ UNCHANGED bookkeeping
    /\ recorders_frame

\* increment_call_count, second half: the sum is written to self.tool_call_count
StoreCount ==
    /\ \E t \in Recorders :
          /\ Moves(t, "store", "now")
          /\ tool_call_count' = increment_call_count(recorders[t].count)
    /\ UNCHANGED <<last_tool_name, last_tool_args, last_tool_call_time, clock>>
    /\ recorders_frame

\* the caller evaluates datetime.now() for set_last_call_info
ReadNow ==
    /\ \E t \in Recorders, now \in clock..Min(clock + 1, MaxClock) :
          /\ sys = "recorders"
          /\ recorders[t].at = "now"
          /\ recorders' = [recorders EXCEPT ![t].at = "name", ![t].time = now]
          /\ clock' = now
    /\ UNCHANGED <<tool_call_count, last_tool_name, last_tool_args, last_tool_call_time>>
    /\ recorders_frame

\* set_last_call_info: self.last_tool_name = tool_name
SetLastName ==
    /\ \E t \in Recorders :
          /\ Moves(t, "name", "args")
          /\ last_tool_name' = recorders[t].name
    /\ UNCHANGED <<tool_call_count, last_tool_args, last_tool_call_time, clock>>
    /\ recorders_frame

\* set_last_call_info: self.last_tool_args = tool_args
SetLastArgs ==
    /\ \E t \in Recorders :
          /\ Moves(t, "args", "time")
          /\ last_tool_args' = recorders[t].args
    /\ UNCHANGED <<tool_call_count, last_tool_name, last_tool_call_time, clock>>
    /\ recorders_frame

\* set_last_call_info: self.last_tool_call_time = call_time
SetLastTime ==
    /\ \E t \in Recorders :
          /\ Moves(t, "time", "done")
          /\ last_tool_call_time' = recorders[t].time
    /\ UNCHANGED <<tool_call_count, last_tool_name, last_tool_args, clock>>
    /\ recorders_frame

NextRecorders ==
    \/ LoadCount
    \/ StoreCount
    \/ ReadNow
    \/ SetLastName
    \/ SetLastArgs
    \/ SetLastTime

SpecRecorders == InitRecorders /\ [][NextRecorders]_vars

(***************************************************************************)
(* The object graphs together.                                             *)
(***************************************************************************)
Init ==
    InitTravel \/ InitDispatch \/ InitHandlers \/ InitProfiles \/ InitDetectors \/ InitRecorders
Next ==
    NextTravel \/ NextDispatch \/ NextHandlers \/ NextProfiles \/ NextDetectors
      \/ NextRecorders
Spec == Init /\ [][Next]_vars

(***************************************************************************)
(* The step-by-step dispatch returns only lists that the caller's view,    *)
(* _execute_tools_concurrently(tool_calls), contains.                      *)
(***************************************************************************)
DispatchRefinement ==
    pc = "dispatched" => results \in _execute_tools_concurrently(tool_calls)

\* with pairwise distinct requests every result is that of the request's own execution
DistinctRequestsOwnResults ==
    (/\ pc = "dispatched"
     /\ \A i, j \in 1..Len(tool_calls) : i # j => tool_calls[i] # tool_calls[j])
    => \A i \in 1..Len(tool_calls) :
          results[i] \in {Collected(futures[i], tool_calls[i]), TimeoutResult(tool_calls[i])}

(***************************************************************************)
(* Properties.                                                             *)
(***************************************************************************)
\* C1: when the concurrent dispatch has returned, the i-th result is the outcome of
\* the execution submitted for the i-th request (or the timeout of waiting for it),
\* for every list of requests, equal entries included, and the tool messages are in
\* request order.
C1_ResultOfOwnExecution ==
    pc = "dispatched" =>
        /\ Len(results) = Len(tool_calls)
        /\ \A i \in 1..Len(tool_calls) :
              /\ results[i] \in {Collected(futures[i], tool_calls[i]),
                                 TimeoutResult(tool_calls[i])}
              /\ messages[i].id = tool_calls[i].id

\* the tool-role messages of turn t held by mem
ToolMessagesOf(mem, t) ==
    {i \in 1..Len(mem) : mem[i].role = "tool" /\ mem[i].content.t = t}

\* C2: after a function-calling turn in which the LLM requested tools has completed,
\* the conversation memory holds one tool-role message per requested call.
C2_ToolMessagesInMemory ==
    (pc = "idle" /\ outcome = "completed" /\ ~turn_failed)
    => Cardinality(ToolMessagesOf(_memory, turn)) = n_requested

\* the assistant messages of mem that hold the final answer of turn t
AnswersOf(mem, t) ==
    {i \in 1..Len(mem) : mem[i].role = "assistant" /\ mem[i].content.k = "answer"
                         /\ mem[i].content.t = t}

\* the step in which a turn runs to completion
Completes == outcome = "none" /\ outcome' = "completed"

\* C3: the step that completes a turn leaves the turn's final answer in memory as
\* the last message, an assistant message, and the memory holds it exactly once; no
\* turn ever has its final answer in memory twice.
C3_AnswerAppendedOnce ==
    /\ [][Completes =>
            /\ Len(_memory') > Len(_memory)
            /\ Last(_memory').role = "assistant"
            /\ AnswersOf(_memory', turn') = {Len(_memory')}
            /\ \A i \in 1..Len(_memory) : _memory'[i] = _memory[i]]_vars
    /\ [](\A t \in 1..MaxTurns : Cardinality(AnswersOf(_memory, t)) <= 1)

\* a turn that requested tools has completed with the LLM's final answer
C3_TurnCompleted ==
    /\ pc = "idle" /\ outcome = "completed" /\ n_requested > 0
    /\ Last(_memory) = Msg("assistant", Answer(turn, "text"), "")

\* C4: between turns, a turn that ended by a failure has an assistant message (the
\* apology) recorded in memory, and the memory does not end with that turn's user
\* or tool message.
C4_FailedTurnCommitted ==
    (pc = "idle" /\ outcome = "raised")
    => /\ AnswersOf(_memory, turn) # {}
       /\ ~(Last(_memory).role \in {"user", "tool"} /\ Last(_memory).content.t = turn)

\* C5: the first message of a conversation memory that holds messages is the system
\* message with the active system prompt, for MemoryManager and for TravelAgent.
C5_FirstMessageIsSystemPrompt ==
    /\ memory # <<>> => memory[1] = Msg("system", SystemPrompt, "")
    /\ _memory # <<>> => _memory[1] = Msg("system", SystemPrompt, "")

\* the step of a handle_interrupt call on a TravelAgent whose flag is clear
InterruptActs == n_interrupts' = n_interrupts + 1 /\ ~_interrupt_handled

\* C6: handle_interrupt(partial) replaces the content of a most recent assistant
\* message by partial and the cut-off marker, changes no other message, and appends
\* exactly one system-role interruption marker.
C6_InterruptRewritesThenMarks ==
    [][InterruptActs =>
         /\ Len(_memory') = Len(_memory) + 1
         /\ Last(_memory').role = "system"
         /\ Last(_memory').content.k \in {"interrupted_by_user", "user_interrupted"}
         /\ \A i \in 1..Len(_memory) :
               \/ _memory'[i] = _memory[i]
               \/ /\ i = Len(_memory)
                  /\ _memory[i].role = "assistant"
                  /\ _memory'[i].role = "assistant"
                  /\ _memory'[i].content.k = "cut"
         /\ (_memory # <<>> /\ Last(_memory).role = "assistant")
               => _memory'[Len(_memory)].content.k = "cut"]_vars

\* C7: after handle_interrupt has been called with heard text while the stream of a
\* turn was in flight, the memory holds the truncated partial output of that turn
\* after that turn's user message.
C7_PartialAfterUserMessage ==
    cut_in_flight =>
        \E i, j \in 1..Len(_memory) :
            /\ i < j
            /\ _memory[i] = Msg("user", UserText(turn), "")
            /\ _memory[j].role = "assistant"
            /\ _memory[j].content = Truncated(turn, "heard")

\* the step of a call_tool call made outside a handler
DirectCallStep == h_pc = "idle" /\ h_pc' = "idle" /\ n_call_tool' = n_call_tool + 1

\* C8: a call of the Tool Caller with an unregistered name returns the unknown-tool
\* error result and increments the call counter.
C8_UnknownToolCounted ==
    [][(DirectCallStep /\ h_call'.name \notin _tool_functions) =>
         /\ h_result' = CallResult("unknown_tool", h_call'.name, "")
         /\ tool_call_count' = tool_call_count + 1]_vars

\* C9: once the body of a tool has been invoked, the call counter has counted the
\* call and last_tool_name names that tool, on every path that invokes tools.
C9_BookkeepingBeforeBody ==
    last_body # "None" => (tool_call_count >= 1 /\ last_tool_name = last_body)

ExecutionFailed(fut) ==
    fut.raised \/ fut.res.content \in {"json_error_unknown_tool", "json_error_tool_failed"}

\* whether a collected result reports a failed execution
ReportsFailure(res) ==
    res.content \in {"exception", "json_error_unknown_tool", "json_error_tool_failed"}

\* C11: when the concurrent dispatch of N calls has returned, the result list has N
\* entries, and the i-th entry reports a failure (an exception, invalid JSON
\* arguments, an unknown tool) exactly when the execution of the i-th call failed,
\* or is the timeout of that call: a failure of one call shows in no sibling's result.
C11_FailureStaysWithItsCall ==
    pc = "dispatched" =>
        /\ Len(results) = Len(tool_calls)
        /\ \A i \in 1..Len(tool_calls) :
              \/ results[i] = TimeoutResult(tool_calls[i])
              \/ /\ ReportsFailure(results[i]) <=> ExecutionFailed(futures[i])
                 /\ results[i].tool_name = tool_calls[i].name

\* with pairwise distinct requests a failure stays with its call
DistinctRequestsIsolated ==
    (\A i, j \in 1..Len(tool_calls) : i # j => tool_calls[i] # tool_calls[j])
    => C11_FailureStaysWithItsCall

\* a step that is one call of the store operation op
StoreStep(op) == n_ops' = n_ops + 1 /\ p_op'.op = op

\* C12: collect_user_info with an info that lacks a required field returns an error
\* envelope that names exactly the missing fields, and the store is left as it was:
\* no profile is created and no field of an existing profile changes.
C12_MissingFieldsRejected ==
    [][(StoreStep("collect_user_info") /\ required_fields \ p_op'.info.fields # {})
         => /\ p_op'.result.status = "error"
            /\ p_op'.result.message = "missing_fields"
            /\ p_op'.result.missing = required_fields \ p_op'.info.fields
            /\ user_profiles' = user_profiles]_vars

\* a call without the budget was made on a user whose profile exists
C12_RejectedOnExistingProfile ==
    /\ sys = "profiles"
    /\ p_op.op = "collect_user_info"
    /\ p_op.info.fields = required_fields \ {"budget"}
    /\ user_profiles[p_op.user_id].exists

\* a call of collect_user_info whose info holds every required field
CompleteCollectStep ==
    StoreStep("collect_user_info") /\ required_fields \subseteq p_op'.info.fields

\* what collect_user_info owes a range of real days held under the keys ks
DateRangeChecked(ks) ==
    (/\ CompleteCollectStep
     /\ p_op'.info.travel_dates.keys = ks
     /\ p_op'.info.travel_dates.first # 0
     /\ p_op'.info.travel_dates.last # 0)
      => IF p_op'.info.travel_dates.last < p_op'.info.travel_dates.first
         THEN /\ p_op'.result = Error("end_before_start")
              /\ user_profiles' = user_profiles
         ELSE /\ p_op'.result.status = "success"
              /\ user_profiles'[p_op'.user_id].exists

\* C13: collect_user_info with every required field and a travel_dates range given as
\* {start, end} returns an error that cites the date range and leaves the store as it
\* was when end is earlier than start, and accepts the range when end equals start.
C13_StartEndRangeChecked == [][DateRangeChecked("start_end")]_vars

\* the same with the range given as {start_date, end_date}
StartDateEndDateRangeChecked == [][DateRangeChecked("start_date_end_date")]_vars

\* a range of one day under the keys start_date and end_date was accepted
OneDayRangeAccepted ==
    /\ p_op.op = "collect_user_info"
    /\ p_op.info.travel_dates = DateRange("start_date_end_date", 1, 1)
    /\ p_op.result.status = "success"

\* the store operations that write to a profile
MutatingOps ==
    {"collect_user_info", "add_travel_history", "collect_feedback", "update_user_preferences"}

\* a step that is a successful call of a mutating operation
MutatingStep ==
    /\ n_ops' = n_ops + 1
    /\ p_op'.op \in MutatingOps
    /\ p_op'.result.status = "success"

\* a successful mutating call on an existing profile keeps created_at and sets
\* updated_at to the reading of the clock it made last
RefreshStep ==
    (MutatingStep /\ user_profiles[p_op'.user_id].exists)
      => /\ user_profiles'[p_op'.user_id].created_at = user_profiles[p_op'.user_id].created_at
         /\ user_profiles'[p_op'.user_id].updated_at = p_op'.last

\* the call that creates a profile stamps created_at and updated_at with one time
CreationStep ==
    (MutatingStep /\ ~user_profiles[p_op'.user_id].exists)
      => /\ user_profiles'[p_op'.user_id].created_at = p_op'.first
         /\ user_profiles'[p_op'.user_id].updated_at = user_profiles'[p_op'.user_id].created_at

CreatedBeforeUpdated ==
    \A u \in Users : user_profiles[u].created_at <= user_profiles[u].updated_at

\* C14: the first successful collect_user_info of a user creates the profile with
\* created_at and updated_at both equal to the call time; every later successful
\* mutating operation refreshes updated_at and keeps created_at; created_at is never
\* later than updated_at.
C14_Timestamps ==
    [][CreationStep /\ RefreshStep /\ CreatedBeforeUpdated']_vars

\* what holds of the timestamps when the clock ticks during the creating call
TimestampsRefreshed ==
    [][RefreshStep /\ CreatedBeforeUpdated']_vars

\* a profile was refreshed after it was created
ProfileRefreshed ==
    /\ p_op.op \in MutatingOps \ {"collect_user_info"}
    /\ p_op.result.status = "success"
    /\ user_profiles[p_op.user_id].created_at < user_profiles[p_op.user_id].updated_at

IsPrefix(s, t) == Len(s) <= Len(t) /\ SubSeq(t, 1, Len(s)) = s

\* C15: a profile comes into existence only through a successful collect_user_info
\* (the other operations answer an unknown user with an error envelope and create
\* nothing), is never deleted, and its travel_history and feedback only grow: what a
\* list held before a step is a prefix of what it holds after.
C15_ProfilesOnlyGrow ==
    [][\A u \in Users :
         /\ user_profiles[u].exists => user_profiles'[u].exists
         /\ (~user_profiles[u].exists /\ user_profiles'[u].exists)
              => /\ StoreStep("collect_user_info")
                 /\ p_op'.user_id = u
                 /\ p_op'.result.status = "success"
         /\ (/\ n_ops' = n_ops + 1
             /\ p_op'.op # "collect_user_info"
             /\ p_op'.user_id = u
             /\ ~user_profiles[u].exists)
              => /\ p_op'.result.status = "error"
                 /\ user_profiles' = user_profiles
         /\ IsPrefix(user_profiles[u].travel_history, user_profiles'[u].travel_history)
         /\ IsPrefix(user_profiles[u].feedback, user_profiles'[u].feedback)]_vars

\* one user has a trip on record, and add_travel_history was refused for another
\* user, who has no profile
C15_UnknownUserRefused ==
    /\ p_op.op = "add_travel_history"
    /\ p_op.result = Error("no_such_user")
    /\ ~user_profiles[p_op.user_id].exists
    /\ \E u \in Users : Len(user_profiles[u].travel_history) > 0

\* a step that enters handle() of a handler
HandlerEnters == n_ops' = n_ops + 1 /\ h_turn'.id = n_ops'

\* the parameter a handler cannot do without
RequiredParam(handler) ==
    IF handler = "weather" THEN "location"
    ELSE IF handler = "user_info" THEN "info"
    ELSE "destination"

\* handle() returns the clarification at once, and nothing else has happened
ClarifiedWithoutEffect ==
    /\ h_turn'.ret = "clarification"
    /\ h_pc' = "idle"
    /\ memory' = memory
    /\ n_call_tool' = n_call_tool
    /\ bookkeeping' = bookkeeping

ParamHandlers == {"weather", "route", "itinerary", "packing", "social_media", "user_info"}

\* C16: in every capability handler, a request from which the required parameter
\* cannot be obtained is answered with the canned clarification message, with no
\* tool call and no change of the memory or of the call bookkeeping in that turn.
C16_ClarificationWithoutEffect ==
    [][(/\ HandlerEnters
        /\ h_turn'.handler \in ParamHandlers
        /\ Get(h_turn'.params, RequiredParam(h_turn'.handler)) = None)
         => ClarifiedWithoutEffect]_vars

\* the same of the handlers other than SocialMediaHandler
OtherHandlersClarifyWithoutEffect ==
    [][(/\ HandlerEnters
        /\ h_turn'.handler \in ParamHandlers \ {"social_media"}
        /\ Get(h_turn'.params, RequiredParam(h_turn'.handler)) = None)
         => ClarifiedWithoutEffect]_vars

\* SocialMediaHandler was left by an exception after the photo analysis was stored
SocialMediaRaisedAfterPhoto ==
    /\ h_turn.handler = "social_media"
    /\ h_turn.ret = "raised"
    /\ h_turn.called = <<"analyze_travel_photo">>
    /\ Last(memory).role = "tool"

\* the tool implied by the intent
ImpliedTool(handler) ==
    IF handler = "itinerary" THEN "generate_travel_itinerary"
    ELSE IF handler = "packing" THEN "generate_packing_list"
    ELSE IF handler = "route" THEN "get_route_traffic"
    ELSE IF handler = "weather" THEN "get_current_temperature"
    ELSE "analyze_travel_photo"

\* the handler asks the LLM for the final answer
LLMRequested == h_pc = "store" /\ h_pc' = "llm"

\* at the request for the final answer the handler has called tools once, the tool
\* of its intent, and the memory ends with the tool message of that call
OneCallThenLLM ==
    LLMRequested
      => /\ h_turn'.called = <<ImpliedTool(h_turn'.handler)>>
         /\ Len(memory') = Len(memory) + 1
         /\ Last(memory') = Msg("tool", ToolText(0, json_dumps(h_result)),
                                ImpliedTool(h_turn'.handler))

\* C17: an itinerary or a packing request from which a destination is extracted
\* makes the handler invoke the tool implied by the intent, once, append the result
\* to memory as one tool message, and only then ask the LLM for the final answer.
C17_TripRequestCallsItsTool ==
    [][/\ (/\ HandlerEnters
            /\ h_turn'.handler \in {"itinerary", "packing"}
            /\ Get(h_turn'.params, "destination") # None)
             => /\ h_pc' = "record"
                /\ h_call'.name = ImpliedTool(h_turn'.handler)
       /\ h_turn'.handler \in {"itinerary", "packing"} => OneCallThenLLM]_vars

\* a text that gives no dates yields three days starting today
DatesDefaultToThreeDays ==
    [][(/\ HandlerEnters
        /\ h_turn'.handler = "itinerary"
        /\ Get(h_turn'.params, "start_date") # "given_start"
        /\ Get(h_turn'.params, "end_date") # strftime(clock + DayCount - 1))
         => /\ Get(h_turn'.params, "start_date") = strftime(clock)
            /\ Get(h_turn'.params, "end_date") = strftime(clock + 2)]_vars

\* an itinerary request that names a destination was answered with the clarification
ItineraryClarifiedDespiteDestination ==
    /\ h_turn.handler = "itinerary"
    /\ Get(h_turn.params, "destination") # None
    /\ h_turn.ret = "clarification"

\* the step of a handler that follows a failed tool call
FailedCallStored == h_pc = "store" /\ h_pc' # "store" /\ h_result.error # ""

\* the error result is appended as a tool message and the LLM is asked over it
ErrorStoredThenLLM ==
    /\ memory' = Append(memory, Msg("tool", ToolText(0, json_dumps(h_result)), h_call.name))
    /\ h_pc' = "llm"
    /\ h_turn'.ret = "none"

\* C18: when the tool call made by a handler fails, nothing is raised up the stack:
\* the handler appends the error result to memory as a tool message and goes on to
\* ask the LLM for the final answer over a memory that ends with that message.
C18_FailedCallAnswered ==
    [][FailedCallStored => ErrorStoredThenLLM]_vars

\* the same of the calls after which no social-media post is to follow
UnchainedFailedCallAnswered ==
    [][(FailedCallStored /\ ~h_call.chain) => ErrorStoredThenLLM]_vars

\* a handler is asking the LLM over the error result of its tool call
ErrorBeforeLLM ==
    /\ h_pc = "llm"
    /\ h_result.error = "tool_failed"
    /\ Last(memory).content = ToolText(0, "json_error_tool_failed")

\* the text given to ImageAnalysisHandler has a social-media cue word
HasCue(t) == Get(t.params, "cue") # None

\* the tool names of the last n messages of mem, all of them tool messages
ToolTail(mem, n) ==
    IF n > Len(mem) THEN <<>>
    ELSE [i \in 1..n |-> IF mem[Len(mem) - n + i].role = "tool"
                          THEN mem[Len(mem) - n + i].id ELSE None]

\* C19: ImageAnalysisHandler.handle with an image and a social-media cue word calls
\* analyze_travel_photo and then generate_social_media_post, fed with the result of
\* the first call and the trip info of the profile, and has both results in memory,
\* in that order, when it asks the LLM; without a cue word it makes the first call
\* only; without an image it makes no call and leaves the memory as it was.
C19_PhotoThenPost ==
    [][h_turn'.handler = "image" =>
         /\ (h_pc = "store" /\ h_pc' # "store" /\ HasCue(h_turn))
               => /\ h_pc' = "record"
                  /\ h_call'.name = "generate_social_media_post"
                  /\ Get(h_call'.args, "photos_analysis") = json_dumps(h_result)
         /\ (h_pc # "llm" /\ h_pc' = "llm")
               => /\ h_turn'.called =
                       IF HasCue(h_turn)
                       THEN <<"analyze_travel_photo", "generate_social_media_post">>
                       ELSE <<"analyze_travel_photo">>
                  /\ ToolTail(memory', Len(h_turn'.called)) = h_turn'.called
         /\ (HandlerEnters /\ h_pc' = "idle")
               => memory' = memory /\ n_call_tool' = n_call_tool]_vars

\* what the handler does without a cue word and without an image
PhotoOnlyWithoutCue ==
    [][(h_turn'.handler = "image" /\ ~HasCue(h_turn')) =>
         /\ (h_pc # "llm" /\ h_pc' = "llm")
               => /\ h_turn'.called = <<"analyze_travel_photo">>
                  /\ ToolTail(memory', 1) = h_turn'.called
         /\ (HandlerEnters /\ h_pc' = "idle")
               => memory' = memory /\ n_call_tool' = n_call_tool]_vars

\* ImageAnalysisHandler was left by an exception after the photo analysis of a
\* request with a cue word
ImageHandlerRaisedBeforePost ==
    /\ h_turn.handler = "image" /\ HasCue(h_turn)
    /\ h_turn.ret = "raised"
    /\ h_turn.called = <<"analyze_travel_photo">>

\* C20: UserInfoHandler.handle calls no mutating tool for a query (collect_user_info
\* is not invoked, the call counter and the profile store stay as they were), and
\* answers an update whose params carry no info payload with the clarification
\* message, without a call of the store.
C20_UserInfoWithoutPayload ==
    [][(/\ HandlerEnters
        /\ h_turn'.handler = "user_info"
        /\ Get(h_turn'.params, "action") = "query" \/ Get(h_turn'.params, "info") = None)
         => /\ h_pc' = "idle"
            /\ n_call_tool' = n_call_tool
            /\ tool_call_count' = tool_call_count
            /\ user_profiles' = user_profiles
            /\ Get(h_turn'.params, "action") # "query" => h_turn'.ret = "clarification"]_vars

\* a request to update the profile that names a destination and dates was answered
\* with the clarification
C20_UpdateClarified ==
    /\ h_turn.handler = "user_info"
    /\ Get(h_turn.params, "destination") # None
    /\ Get(h_turn.params, "info") = None
    /\ h_turn.ret = "clarification"

\* C21: no operation on the conversation memory removes or reorders messages: in
\* every step the length does not decrease and every earlier message stays where it
\* was and as it was, except that handle_interrupt may rewrite the content of the
\* message that was last when it was called.
C21_MemoryAppendOnly ==
    [][/\ Len(memory') >= Len(memory)
       /\ \A i \in 1..Len(memory) :
             \/ memory'[i] = memory[i]
             \/ /\ i = Len(memory)
                /\ memory' = Append([memory EXCEPT ![i].content = memory'[i].content],
                                    Msg("system", UserInterruptedMarker, ""))]_vars

\* an interrupt has cut the last answer short and appended its marker; the
\* messages before the answer are as they were
C21_InterruptRewroteLast ==
    /\ sys = "handlers"
    /\ Len(memory) >= 4
    /\ memory[Len(memory)] = Msg("system", UserInterruptedMarker, "")
    /\ memory[Len(memory) - 1] \in {Msg("assistant", Truncated(0, h), "") : h \in HeardResponses}
    /\ memory[1] = Msg("system", SystemPrompt, "")

\* C22: an exception raised anywhere in a turn is caught at the agent boundary: no
\* turn of chat_with_memory ends by an exception that leaves the generator for its
\* consumer; a turn that has ended was ended by a return or by the consumer.
C22_NothingPropagates ==
    (pc = "idle" /\ turn > 0) => outcome \in {"completed", "cancelled"}

\* the fixed priority order of the text intents
PriorityOrder ==
    <<"weather", "traffic", "route", "nearby_facility", "itinerary", "packing",
      "social_media", "user_info", "scenic_info">>

\* the handler the priority order gives: image analysis for an image with a cue
\* word, else the first intent of the order that matched, else the default path
FirstByPriority(intents, image_data) ==
    IF image_data /\ intents.cue THEN "image_analysis"
    ELSE IF \E i \in 1..Len(PriorityOrder) : PriorityOrder[i] \in intents.matched
    THEN PriorityOrder[CHOOSE i \in 1..Len(PriorityOrder) :
                          /\ PriorityOrder[i] \in intents.matched
                          /\ \A j \in 1..(i - 1) : PriorityOrder[j] \notin intents.matched]
    ELSE "default"

\* C23: for every combination of matched intents and image, the handler selection
\* yields the one handler the fixed priority order gives (image analysis first for
\* an image with a cue word, then the text intents in registration order), and the
\* default path when nothing matched.
C23_SelectionFollowsPriority ==
    det.op = "get_handler"
      => /\ det.raised = None
         /\ det.selected = FirstByPriority(det.intents, det.image_data)

\* a step that is a call of extract_params
ExtractStep == n_ops' = n_ops + 1 /\ det'.op = "extract_params"

\* C24: calling extract_params of a detector twice with the same text yields the
\* same params, whatever happened between the two calls, the passing of time
\* included.
C24_SameTextSameParams ==
    [][(/\ ExtractStep
        /\ det.op = "extract_params"
        /\ det'.detector = det.detector
        /\ det'.text = det.text)
         => det'.params = det.params]_vars

\* on one and the same day two calls with the same text agree
SameDaySameParams ==
    [][ExtractStep => det'.params = extract_params(det'.detector, det'.text, clock)]_vars

\* the keys under which a detector returns the start and the end date
StartKey(detector) ==
    IF detector = "packing" THEN "travel_dates.start_date" ELSE "start_date"
EndKey(detector) ==
    IF detector = "packing" THEN "travel_dates.end_date" ELSE "end_date"

\* the three tiers: the explicit range; today and the N-th day; today and the
\* third day
TierDates(text, today) ==
    IF text.dates \in {"range", "range_and_days"} THEN <<"given_start", "given_end">>
    ELSE IF text.dates = "days"
    THEN <<strftime(today), strftime(today + DayCount - 1)>>
    ELSE <<strftime(today), strftime(today + 2)>>

DatesFollowTiers(detectors) ==
    (ExtractStep /\ det'.detector \in detectors)
      => /\ Get(det'.params, StartKey(det'.detector)) = TierDates(det'.text, clock)[1]
         /\ Get(det'.params, EndKey(det'.detector)) = TierDates(det'.text, clock)[2]

\* C25: the itinerary, the packing and the user-info extractor return the explicit
\* date range of a text that has one (also beside a day count), today and the N-th
\* day from today for a text with only a day count N, and today and the third day
\* from today for a text with neither.
C25_DateTiers ==
    [][DatesFollowTiers({"itinerary", "packing", "user_info"})]_vars

\* the same of the itinerary and the packing extractor
TripDateTiers ==
    [][DatesFollowTiers({"itinerary", "packing"})]_vars

\* every recording thread has finished
AllRecorded == \A t \in Recorders : recorders[t].at = "done"

\* the last-call fields are those of one recorded call
LastCallOfOne ==
    \E t \in Recorders :
       /\ last_tool_name = recorders[t].name
       /\ last_tool_args = recorders[t].args
       /\ last_tool_call_time = recorders[t].time

\* C26: when k tool calls record themselves concurrently, the call count afterwards
\* has grown by exactly k, and last_tool_name, last_tool_args and last_tool_call_time
\* all describe one and the same call.
C26_RecordingsSerialized ==
    (sys = "recorders" /\ AllRecorded)
      => /\ tool_call_count = MaxRecorders
         /\ LastCallOfOne
\* every submitted call has been executed
AllExecuted == \A i \in 1..Len(futures) : futures[i].st = "done"

\* C27: at every moment of a concurrent dispatch of N requested calls at most
\* min(N, 3) tool executions are running, the remaining calls wait for a free worker,
\* and every submitted call is eventually executed.
C27_BoundedPool ==
    /\ [](Cardinality(Running(futures)) <= Min(Len(tool_calls), 3))
    /\ [][\A i \in 1..Len(futures) :
            (futures[i].st = "queued" /\ futures'[i].st = "running")
              => Cardinality(Running(futures)) < Min(Len(tool_calls), 3)]_vars
    /\ <>AllExecuted

\* three calls are running and a fourth waits for a worker
C27_FourthCallWaits ==
    /\ Len(tool_calls) = 4
    /\ Cardinality(Running(futures)) = 3
    /\ Queued(futures) = {4}
\* a step that is a call of TravelAgent.handle_interrupt
InterruptStep == sys = "travel" /\ n_interrupts' = n_interrupts + 1

\* C28: TravelAgent.handle_interrupt changes the memory at most once between two
\* calls of reset_interrupt: a handle_interrupt that finds the flag set leaves the
\* memory exactly as it was, one that changes the memory found the flag clear, and
\* every call leaves the flag set, which only reset_interrupt clears.
C28_InterruptOncePerReset ==
    [][/\ InterruptStep
          => /\ _interrupt_handled => _memory' = _memory
             /\ _memory' # _memory => ~_interrupt_handled
             /\ _interrupt_handled'
       /\ (_interrupt_handled /\ ~_interrupt_handled')
          => (n_interrupts' = n_interrupts /\ _memory' = _memory)]_vars

\* handle_interrupt was called twice and the memory holds what the first call
\* appended to the empty memory: the second call changed nothing
C28_SecondInterruptIgnored ==
    /\ sys = "travel"
    /\ n_interrupts = 2
    /\ _interrupt_handled
    /\ _memory = <<Msg(InterruptRole(interrupt_method), InterruptedMarker, "")>>
\* a step of the final-answer retry loop that stays in the loop
FinalRetryStep == pc = "final_request" /\ pc' = "final_request"

\* a step that leaves the final-answer retry loop
FinalLoopLeft == pc = "final_request" /\ pc' # "final_request"

\* the final request is sent at most max_retries times, a retry executes no tool and
\* leaves the request context as it was, and the loop is left with one of `answers`
\* being streamed or with a failure that starts the fallback chat
FinalLoop(answers) ==
    /\ pc' = "final_request" => retry' + 1 <= max_retries
    /\ FinalRetryStep
         => /\ retry' = retry + 1
            /\ messages' = messages
            /\ last_body' = last_body
            /\ n_requested' = n_requested
    /\ FinalLoopLeft
         => \/ pc' = "fc_stream" /\ response' \in answers /\ ~turn_failed'
            \/ pc' = "fallback_stream" /\ turn_failed'

\* what _validate_and_clean_response returns for a content that is not empty
CleanedAnswers == {_validate_and_clean_response(c) : c \in FinalContents \ {""}}

\* C29: in a function-calling turn the request for the final answer is sent at most
\* 2 times, a retry re-executes no tool, and the turn ends the loop in one of three
\* ways: a non-empty cleaned final answer, the fixed apology when the answer is empty
\* after the last attempt, or a failure result that makes the turn fall back to plain
\* LLM chat.
C29_FinalLoopOutcomes ==
    [][/\ "" \notin CleanedAnswers
       /\ FinalLoop(CleanedAnswers \cup {"apology"})
       /\ (FinalLoopLeft /\ response' = "apology") => retry = max_retries - 1]_vars

\* the tools of the turn have run, both final responses were empty, and the apology
\* is being streamed
C29_ApologyAfterLastAttempt ==
    /\ sys = "travel"
    /\ pc = "fc_stream"
    /\ n_requested > 0
    /\ response = "apology"
\* the positions of the tool-role messages in the conversation memory
ToolRoleMessages == {i \in 1..Len(memory) : memory[i].role = "tool"}

\* the most recent tool-role message
LastToolMessage == memory[CHOOSE i \in ToolRoleMessages : \A j \in ToolRoleMessages : j <= i]

\* C30: after any sequence of capability-handler invocations on one MemoryManager
\* and one ToolCaller, the number of tool-role messages in the conversation memory
\* equals the call count, and last_tool_name is the name carried by the most recent
\* tool-role message.
C30_ToolMessagesMatchCount ==
    (sys = "handlers" /\ h_pc = "idle")
      => /\ Cardinality(ToolRoleMessages) = tool_call_count
         /\ ToolRoleMessages # {} => last_tool_name = LastToolMessage.id

\* two handlers have run, the second with another tool than the first
C30_TwoToolsRecorded ==
    /\ sys = "handlers" /\ h_pc = "idle"
    /\ tool_call_count = 2
    /\ Cardinality({memory[i].id : i \in ToolRoleMessages}) = 2
    /\ last_tool_name = LastToolMessage.id
====
